---- MODULE Spec2Model ----
(***************************************************************************)
(* Model of the DHL logistics ETL script (src/dhl_etl_script.py):          *)
(* clean_and_transform_data, create_database_schema, load_dimensions,      *)
(* load_fact_table and the __main__ sequence that runs them against a      *)
(* MySQL (InnoDB) store.                                                   *)
(*                                                                         *)
(* Encoding of values                                                      *)
(*   optional value   : <<>> is None / NaN / NaT / SQL NULL, <<v>> is v        *)
(*   date string      : the tuple of its '-'-separated numeric fields,     *)
(*                      <<2023,1,10>> is "2023-01-10", <<>> is None        *)
(*   parsed date      : <<y,m,d>>, <<>> is NaT                             *)
(*   text             : a sequence of one-character strings                *)
(*   cost             : an integer number of quarter currency units, so    *)
(*                      that the medians of the bounded inputs are exact   *)
(***************************************************************************)
EXTENDS Integers, Sequences, FiniteSets, TLC

VARIABLES
    pc,          \* position in the __main__ block
    raw,         \* raw_df: the generated rows
    cleaned,     \* cleaned_df
    tables,      \* how many of the four tables exist (they are created in order)
    db,          \* the committed contents of the four tables
    tx,          \* the connection's view: db plus the open transaction's inserts
    schema,      \* this run's create_database_schema: "idle", "ok", "failed"
    dimPhase,    \* this run's load_dimensions: [st, undid]
    factPhase,   \* this run's load_fact_table: [st, undid]
    phaseStart,  \* db as it was when the current load phase began
    prev         \* row counts left by the previous run, when that run committed
                 \* both phases and this run loads the same rows; else <<>>

vars == <<pc, raw, cleaned, tables, db, tx, schema, dimPhase, factPhase,
          phaseStart, prev>>

-----------------------------------------------------------------------------
(* Bounds *)

\* longest batch of the transformer specifications
MaxCleanRows == 2
MaxCarrierRows == 2
MaxCostRows == 4
\* longest batch of the pipeline specification
MaxRows == 2
\* longest raw carrier name of the transformer specification
MaxNameLen == 2

-----------------------------------------------------------------------------
(* Generic helpers *)

None == <<>>
NaT == <<>>
NaN == <<>>

isna(v) == v = <<>>

Some(v) == <<v>>

RECURSIVE InsertSorted(_, _)
InsertSorted(x, s) ==
    IF s = <<>> THEN <<x>>
    ELSE IF x <= Head(s) THEN <<x>> \o s
    ELSE <<Head(s)>> \o InsertSorted(x, Tail(s))

RECURSIVE sort_values(_)
sort_values(s) ==
    IF s = <<>> THEN <<>> ELSE InsertSorted(Head(s), sort_values(Tail(s)))

\* pandas Series.median(): NaN values are skipped; NaN when nothing is left;
\* the mean of the two middle values for an even count.
median(costs) ==
    LET known == SelectSeq(costs, LAMBDA c : ~isna(c))
        vals == [i \in 1..Len(known) |-> known[i][1]]
        s == sort_values(vals)
        n == Len(s)
    IN  IF n = 0 THEN NaN
        ELSE IF n % 2 = 1 THEN Some(s[(n + 1) \div 2])
        ELSE Some((s[n \div 2] + s[n \div 2 + 1]) \div 2)

-----------------------------------------------------------------------------
(* Dates *)

IsLeap(y) == y % 4 = 0 /\ (y % 100 # 0 \/ y % 400 = 0)

DaysInMonth(y, m) ==
    IF m = 2 THEN (IF IsLeap(y) THEN 29 ELSE 28)
    ELSE IF m \in {4, 6, 9, 11} THEN 30 ELSE 31

\* datetime(y, m, d) accepts the fields
ValidDate(y, m, d) ==
    /\ y >= 1 /\ y <= 9999
    /\ m >= 1 /\ m <= 12
    /\ d >= 1 /\ d <= DaysInMonth(y, m)

\* %Y takes exactly four digits, %m and %d one or two
FourDigits(v) == v >= 1000 /\ v <= 9999

\* datetime.strptime(s, '%Y-%m-%d') does not raise ValueError
MatchesYmd(s) ==
    /\ Len(s) = 3
    /\ FourDigits(s[1])
    /\ ValidDate(s[1], s[2], s[3])

\* datetime.strptime(s, '%d-%m-%Y') does not raise ValueError
MatchesDmy(s) ==
    /\ Len(s) = 3
    /\ FourDigits(s[3])
    /\ ValidDate(s[3], s[2], s[1])

\* variant: only the standard format is tried
parse_first_format_only(date_str) ==
    IF date_str = None THEN NaT
    ELSE IF MatchesYmd(date_str) THEN <<date_str[1], date_str[2], date_str[3]>>
    ELSE NaT

parse_mixed_formats(date_str) ==
    IF date_str = None THEN NaT
    ELSE IF MatchesYmd(date_str) THEN <<date_str[1], date_str[2], date_str[3]>>
    ELSE IF MatchesDmy(date_str) THEN <<date_str[3], date_str[2], date_str[1]>>
    ELSE NaT

\* pd.to_datetime(column, errors='coerce') on ISO-format strings
to_datetime(date_str) ==
    IF date_str = None THEN NaT
    ELSE IF MatchesYmd(date_str) THEN <<date_str[1], date_str[2], date_str[3]>>
    ELSE NaT

\* strftime('%Y%m%d').astype(int)
DateKey(d) == d[1] * 10000 + d[2] * 100 + d[3]

\* Timestamp comparison; any comparison with NaT is False
DateLE(a, b) == ~isna(a) /\ ~isna(b) /\ DateKey(a) <= DateKey(b)
DateGT(a, b) == ~isna(a) /\ ~isna(b) /\ DateKey(a) > DateKey(b)

Quarter(d) == (d[2] - 1) \div 3 + 1

\* dt.weekday: Monday = 0 ... Sunday = 6
Weekday(d) ==
    LET t == <<0, 3, 2, 5, 0, 3, 5, 1, 4, 6, 2, 4>>
        y == IF d[2] < 3 THEN d[1] - 1 ELSE d[1]
        sun0 == (y + y \div 4 - y \div 100 + y \div 400 + t[d[2]] + d[3]) % 7
    IN  (sun0 + 6) % 7

-----------------------------------------------------------------------------
(* Text *)

Lowers == <<"a", "b", "k", "n", "o", "u", "w">>
Uppers == <<"A", "B", "K", "N", "O", "U", "W">>

lower(c) ==
    IF \E i \in 1..Len(Uppers) : Uppers[i] = c
    THEN Lowers[CHOOSE i \in 1..Len(Uppers) : Uppers[i] = c]
    ELSE c

upper(c) ==
    IF \E i \in 1..Len(Lowers) : Lowers[i] = c
    THEN Uppers[CHOOSE i \in 1..Len(Lowers) : Lowers[i] = c]
    ELSE c

IsCased(c) == lower(c) # upper(c)

\* variant: str.capitalize() without lower-casing the rest
title_first_only(s) ==
    [i \in 1..Len(s) |-> IF i = 1 THEN upper(s[i]) ELSE s[i]]

\* str.title(): a cased character is upper-cased when the character before it
\* is not cased (or there is none) and lower-cased otherwise
title(s) ==
    [i \in 1..Len(s) |->
        IF ~IsCased(s[i]) THEN s[i]
        ELSE IF i > 1 /\ IsCased(s[i - 1]) THEN lower(s[i])
        ELSE upper(s[i])]

Unknown == <<"U", "n", "k", "n", "o", "w", "n">>

\* df['CarrierName'].str.title().replace('', 'Unknown'), then .fillna('Unknown')
CleanCarrierName(name) ==
    IF isna(name) THEN Unknown
    ELSE IF title(name[1]) = <<>> THEN Unknown
    ELSE title(name[1])

-----------------------------------------------------------------------------
(* Transformer: clean_and_transform_data *)

Abs(n) == IF n < 0 THEN -n ELSE n

\* Series.abs(): NaN stays NaN
abs(c) == IF isna(c) THEN NaN ELSE Some(Abs(c[1]))

\* Series.fillna(value): a missing entry takes the value (which may be NaN)
fillna(c, value) == IF isna(c) THEN value ELSE c

\* lines 124-129: parse the three date columns, drop rows without ShipDate
ParseDates(df) ==
    LET parsed == [i \in 1..Len(df) |->
                     [df[i] EXCEPT
                        !.ShipDate = parse_mixed_formats(df[i].ShipDate),
                        !.PromisedDeliveryDate = to_datetime(df[i].PromisedDeliveryDate),
                        !.ActualDeliveryDate = to_datetime(df[i].ActualDeliveryDate)]]
    IN  SelectSeq(parsed, LAMBDA r : ~isna(r.ShipDate))

\* lines 132-133
CleanCarriers(df) ==
    [i \in 1..Len(df) |->
        [df[i] EXCEPT !.CarrierName = CleanCarrierName(df[i].CarrierName)]]

\* df.groupby('CarrierName')['ShippingCost'].transform('median'), row i
GroupMedian(df, i) ==
    LET grp == SelectSeq(df, LAMBDA r : r.CarrierName = df[i].CarrierName)
    IN  median([j \in 1..Len(grp) |-> grp[j].ShippingCost])

CostColumn(df) == [j \in 1..Len(df) |-> df[j].ShippingCost]

\* lines 136-139: the global median of line 139 is taken from the column as
\* it stands after the assignment of line 138
CleanCosts(df) ==
    LET absd == [i \in 1..Len(df) |->
                    [df[i] EXCEPT !.ShippingCost = abs(df[i].ShippingCost)]]
        grpd == [i \in 1..Len(df) |->
                    [absd[i] EXCEPT
                        !.ShippingCost = fillna(absd[i].ShippingCost, GroupMedian(absd, i))]]
        glob == median(CostColumn(grpd))
    IN  [i \in 1..Len(df) |->
            [grpd[i] EXCEPT !.ShippingCost = fillna(grpd[i].ShippingCost, glob)]]

\* variant: a missing promised date is looked at first
select_status_promised_first(actual, promised) ==
    IF isna(promised) THEN "Unknown"
    ELSE IF isna(actual) THEN "In-Transit"
    ELSE IF DateLE(actual, promised) THEN "On-Time"
    ELSE "Delayed"

\* np.select(conditions, choices, default='Unknown'): the first true condition
select_status(actual, promised) ==
    IF isna(actual) THEN "In-Transit"
    ELSE IF DateLE(actual, promised) THEN "On-Time"
    ELSE IF DateGT(actual, promised) THEN "Delayed"
    ELSE "Unknown"

DeriveStatus(df) ==
    [i \in 1..Len(df) |->
        [df[i] EXCEPT !.ShipmentStatus =
            select_status(df[i].ActualDeliveryDate, df[i].PromisedDeliveryDate)]]

clean_and_transform_data(df) ==
    DeriveStatus(CleanCosts(CleanCarriers(ParseDates(df))))

-----------------------------------------------------------------------------
(* Storage: the star schema of create_database_schema *)

TableNames == <<"dim_locations", "dim_carriers", "dim_dates", "fact_shipments">>

NoRows == [loc |-> {}, car |-> {}, dates |-> {}, fact |-> {}]

Max(S) == CHOOSE x \in S : \A y \in S : y <= x

\* AUTO_INCREMENT: an id above every id of the table
AutoIncrement(ids) == IF ids = {} THEN 1 ELSE Max(ids) + 1

\* first occurrences, in order (drop_duplicates / unique)
RECURSIVE unique(_)
unique(s) ==
    IF s = <<>> THEN <<>>
    ELSE LET init == unique(SubSeq(s, 1, Len(s) - 1))
             last == s[Len(s)]
         IN  IF \E i \in 1..Len(init) : init[i] = last THEN init
             ELSE Append(init, last)

\* INSERT IGNORE INTO dim_locations: UNIQUE KEY city_state (City, State)
RECURSIVE insert_ignore_locations(_, _)
insert_ignore_locations(tbl, tuples) ==
    IF tuples = <<>> THEN tbl
    ELSE LET t == Head(tuples)
             dup == \E r \in tbl : r.City = t[1] /\ r.State = t[2]
             row == [LocationID |-> AutoIncrement({r.LocationID : r \in tbl}),
                     City |-> t[1], State |-> t[2]]
         IN  insert_ignore_locations(IF dup THEN tbl ELSE tbl \cup {row}, Tail(tuples))

\* INSERT IGNORE INTO dim_carriers: CarrierName UNIQUE
RECURSIVE insert_ignore_carriers(_, _)
insert_ignore_carriers(tbl, names) ==
    IF names = <<>> THEN tbl
    ELSE LET dup == \E r \in tbl : r.CarrierName = Head(names)
             row == [CarrierID |-> AutoIncrement({r.CarrierID : r \in tbl}),
                     CarrierName |-> Head(names)]
         IN  insert_ignore_carriers(IF dup THEN tbl ELSE tbl \cup {row}, Tail(names))

\* lines 265-272: one dim_dates tuple per date
date_tuple(d) ==
    [FullDate |-> d, DateKey |-> DateKey(d), Year |-> d[1], Quarter |-> Quarter(d),
     Month |-> d[2], Day |-> d[3], Weekday |-> Weekday(d)]

\* INSERT IGNORE INTO dim_dates: DateKey PRIMARY KEY, FullDate UNIQUE
RECURSIVE insert_ignore_dates(_, _)
insert_ignore_dates(tbl, tuples) ==
    IF tuples = <<>> THEN tbl
    ELSE LET t == Head(tuples)
             dup == \E r \in tbl : r.DateKey = t.DateKey \/ r.FullDate = t.FullDate
         IN  insert_ignore_dates(IF dup THEN tbl ELSE tbl \cup {t}, Tail(tuples))

\* FOREIGN KEY: a NULL reference is not checked
References(key, ids) == isna(key) \/ key[1] \in ids

ForeignKeysOk(view, t) ==
    /\ References(t.ShipDateKey, {r.DateKey : r \in view.dates})
    /\ References(t.PromisedDateKey, {r.DateKey : r \in view.dates})
    /\ References(t.ActualDeliveryDateKey, {r.DateKey : r \in view.dates})
    /\ References(t.OriginLocationID, {r.LocationID : r \in view.loc})
    /\ References(t.DestinationLocationID, {r.LocationID : r \in view.loc})
    /\ References(t.CarrierID, {r.CarrierID : r \in view.car})

FactRow(view, tbl, t) ==
    [ShipmentFactID |-> AutoIncrement({r.ShipmentFactID : r \in tbl}),
     ShipmentID |-> t.ShipmentID,
     ShipDateKey |-> t.ShipDateKey,
     PromisedDateKey |-> t.PromisedDateKey,
     ActualDeliveryDateKey |-> t.ActualDeliveryDateKey,
     OriginLocationID |-> t.OriginLocationID,
     DestinationLocationID |-> t.DestinationLocationID,
     CarrierID |-> t.CarrierID,
     ShippingCost |-> t.ShippingCost,
     ShipmentStatus |-> t.ShipmentStatus]

\* variant: REPLACE INTO, the row of a stored ShipmentID is overwritten
RECURSIVE replace_into_fact(_, _, _)
replace_into_fact(view, tbl, tuples) ==
    IF tuples = <<>> THEN tbl
    ELSE LET t == Head(tuples)
             kept == {r \in tbl : r.ShipmentID # t.ShipmentID}
         IN  replace_into_fact(view, kept \cup {FactRow(view, kept, t)}, Tail(tuples))

\* variant: no UNIQUE constraint on ShipmentID
RECURSIVE insert_fact_no_unique(_, _, _)
insert_fact_no_unique(view, tbl, tuples) ==
    IF tuples = <<>> THEN tbl
    ELSE insert_fact_no_unique(view, tbl \cup {FactRow(view, tbl, Head(tuples))},
                               Tail(tuples))

\* INSERT IGNORE INTO fact_shipments: ShipmentID UNIQUE NOT NULL, six foreign
\* keys; a row that breaks a constraint is skipped
RECURSIVE insert_ignore_fact(_, _, _)
insert_ignore_fact(view, tbl, tuples) ==
    IF tuples = <<>> THEN tbl
    ELSE LET t == Head(tuples)
             dup == \E r \in tbl : r.ShipmentID = t.ShipmentID
             skip == dup \/ ~ForeignKeysOk(view, t)
         IN  insert_ignore_fact(view,
                                IF skip THEN tbl ELSE tbl \cup {FactRow(view, tbl, t)},
                                Tail(tuples))

-----------------------------------------------------------------------------
(* Loader: what load_dimensions and load_fact_table compute from cleaned_df *)

\* lines 251-255
location_tuples(df) ==
    unique([i \in 1..Len(df) |-> <<df[i].OriginCity, df[i].OriginState>>]
           \o [i \in 1..Len(df) |-> <<df[i].DestinationCity, df[i].DestinationState>>])

\* lines 259-260
carrier_tuples(df) == unique([i \in 1..Len(df) |-> df[i].CarrierName])

\* lines 264-272
date_tuples(df) ==
    LET all == [i \in 1..Len(df) |-> df[i].ShipDate]
               \o [i \in 1..Len(df) |-> df[i].PromisedDeliveryDate]
               \o [i \in 1..Len(df) |-> df[i].ActualDeliveryDate]
        all_dates == unique(SelectSeq(all, LAMBDA d : ~isna(d)))
    IN  [i \in 1..Len(all_dates) |-> date_tuple(all_dates[i])]

\* loc_map.get((city, state)): None when the key is not in the mapping
loc_map_get(view, city, state) ==
    IF \E r \in view.loc : r.City = city /\ r.State = state
    THEN Some((CHOOSE r \in view.loc : r.City = city /\ r.State = state).LocationID)
    ELSE None

carrier_map_get(view, name) ==
    IF \E r \in view.car : r.CarrierName = name
    THEN Some((CHOOSE r \in view.car : r.CarrierName = name).CarrierID)
    ELSE None

date_map_get(view, d) ==
    IF \E r \in view.dates : r.FullDate = d
    THEN Some((CHOOSE r \in view.dates : r.FullDate = d).DateKey)
    ELSE None

\* lines 298-310
fact_data(view, df) ==
    [i \in 1..Len(df) |->
        [ShipmentID |-> df[i].ShipmentID,
         ShipDateKey |-> date_map_get(view, df[i].ShipDate),
         PromisedDateKey |->
            IF ~isna(df[i].PromisedDeliveryDate)
            THEN date_map_get(view, df[i].PromisedDeliveryDate) ELSE None,
         ActualDeliveryDateKey |->
            IF ~isna(df[i].ActualDeliveryDate)
            THEN date_map_get(view, df[i].ActualDeliveryDate) ELSE None,
         OriginLocationID |-> loc_map_get(view, df[i].OriginCity, df[i].OriginState),
         DestinationLocationID |->
            loc_map_get(view, df[i].DestinationCity, df[i].DestinationState),
         CarrierID |-> carrier_map_get(view, df[i].CarrierName),
         ShippingCost |-> df[i].ShippingCost,
         ShipmentStatus |-> df[i].ShipmentStatus]]

\* conn.commit(): the open transaction's inserts become the committed contents
commit(committed, open) == open

\* variant: the except branch does not undo the open transaction
rollback_missing(committed, open) == open

\* conn.rollback(): the open transaction's inserts are discarded
rollback(committed, open) == committed

RowCounts(view) ==
    [loc |-> Cardinality(view.loc), car |-> Cardinality(view.car),
     dates |-> Cardinality(view.dates), fact |-> Cardinality(view.fact)]

-----------------------------------------------------------------------------
(* Inputs *)

NewYork == <<"New York", "NY">>
LosAngeles == <<"Los Angeles", "CA">>

\* one row of generate_messy_dhl_data (lines 84-93)
RawRecord(id, ship, promised, actual, origin, dest, cost, carrier) ==
    [ShipmentID |-> id,
     ShipDate |-> ship,
     PromisedDeliveryDate |-> promised,
     ActualDeliveryDate |-> actual,
     OriginCity |-> origin[1], OriginState |-> origin[2],
     DestinationCity |-> dest[1], DestinationState |-> dest[2],
     ShippingCost |-> cost,
     CarrierName |-> carrier,
     ShipmentStatus |-> "None"]

\* a batch made of the rows f[1], f[2], ..., the row at index i carrying
\* ShipmentID i as the generator numbers them (line 85)
Numbered(f) == [i \in 1..Len(f) |-> [f[i] EXCEPT !.ShipmentID = i]]

ShipDateStrs ==
    {None, <<2023, 1, 10>>, <<10, 1, 2023>>, <<2023, 2, 30>>, <<29, 2, 2023>>,
     <<29, 2, 2024>>, <<2024, 2, 29>>, <<2023, 13, 1>>, <<1, 13, 2023>>,
     <<10, 1, 23>>, <<2023, 1>>}

PromisedStrs == {None, <<2023, 1, 10>>, <<2023, 2, 30>>}

ActualStrs == {None, <<2023, 1, 9>>, <<2023, 1, 10>>, <<2023, 1, 11>>, <<2023, 2, 30>>}

Alphabet == {"a", "A", " "}

Texts(n) == UNION {[1..k -> Alphabet] : k \in 0..n}

CarrierStrs == {None} \cup {Some(s) : s \in Texts(MaxNameLen)}

DateRows ==
    {RawRecord(0, ship, <<2023, 1, 12>>, None, NewYork, LosAngeles, Some(40),
               Some(<<"a">>)) : ship \in ShipDateStrs}

StatusRows ==
    {RawRecord(0, <<2023, 1, 5>>, p, a, NewYork, LosAngeles, Some(40), Some(<<"a">>))
        : p \in PromisedStrs, a \in ActualStrs}

CarrierRows ==
    {RawRecord(0, <<2023, 1, 5>>, None, None, NewYork, LosAngeles, Some(40), c)
        : c \in CarrierStrs}

CostRows ==
    {RawRecord(0, <<2023, 1, 5>>, None, None, NewYork, LosAngeles, cost, carrier)
        : cost \in {NaN, Some(-40), Some(400)},
          carrier \in {None, Some(<<"a">>), Some(<<"A", "a">>)}}

\* what distinguishes two rows of one shipment: <<actual delivery, cost>>,
\* undelivered at a (sign-flipped) cost of 40 or delivered on time at a cost of 80
LoadVariants == {<<None, Some(-40)>>, <<<<2023, 1, 12>>, Some(80)>>}

\* rows of the pipeline runs: shipment 1 goes New York -> Los Angeles with
\* carrier "a" and comes in both variants, shipment 2 goes back with carrier "A"
LoadRows ==
    {RawRecord(1, <<10, 1, 2023>>, <<2023, 1, 12>>, v[1], NewYork, LosAngeles,
               v[2], Some(<<"a">>)) : v \in LoadVariants}
    \cup
    {RawRecord(2, <<2023, 1, 10>>, <<2023, 1, 12>>, v[1], LosAngeles, NewYork,
               v[2], Some(<<"A">>)) : v \in {<<<<2023, 1, 13>>, Some(80)>>}}

\* the batches of a run: 1..n rows, a ShipmentID may come more than once
LoadBatches(n) == UNION {[1..k -> LoadRows] : k \in 1..n}

-----------------------------------------------------------------------------
(* The run: the __main__ block, statement by statement *)

\* a load phase: st is "idle", "running", "committed" or "rolledback"; undid
\* tells whether the rollback discarded inserts of the open transaction
Idle == [st |-> "idle", undid |-> FALSE]
Running == [st |-> "running", undid |-> FALSE]
Committed == [st |-> "committed", undid |-> FALSE]
RolledBack(undid) == [st |-> "rolledback", undid |-> undid]

DimSteps == {"dim_locations", "dim_carriers", "dim_dates", "dim_commit"}
FactSteps == {"fact_select", "fact_insert", "fact_commit"}

InitStore ==
    /\ cleaned = <<>>
    /\ tables = 0
    /\ db = NoRows
    /\ tx = NoRows
    /\ schema = "idle"
    /\ dimPhase = Idle
    /\ factPhase = Idle
    /\ phaseStart = NoRows
    /\ prev = <<>>

Init ==
    /\ pc = "start"
    /\ raw = <<>>
    /\ InitStore

\* line 336; a later run of the script starts here again
Generate ==
    /\ pc \in {"start", "finished"}
    /\ \E batch \in LoadBatches(MaxRows) :
         /\ raw' = batch
         /\ prev' = IF batch = raw /\ dimPhase.st = "committed"
                        /\ factPhase.st = "committed"
                     THEN Some(RowCounts(db)) ELSE <<>>
    /\ pc' = "clean"
    /\ cleaned' = <<>>
    /\ schema' = "idle"
    /\ dimPhase' = Idle
    /\ factPhase' = Idle
    /\ phaseStart' = db
    /\ UNCHANGED <<tables, db, tx>>

\* line 337
CleanAndTransform ==
    /\ pc = "clean"
    /\ cleaned' = clean_and_transform_data(raw)
    /\ pc' = "connect"
    /\ UNCHANGED <<raw, tables, db, tx, schema, dimPhase, factPhase, phaseStart, prev>>

\* lines 341-344: a live connection
ConnectOk ==
    /\ pc = "connect"
    /\ pc' = "schema"
    /\ UNCHANGED <<raw, cleaned, tables, db, tx, schema, dimPhase, factPhase,
                   phaseStart, prev>>

\* lines 174-179, 343: no connection, the load is skipped
ConnectFail ==
    /\ pc = "connect"
    /\ pc' = "finished"
    /\ UNCHANGED <<raw, cleaned, tables, db, tx, schema, dimPhase, factPhase,
                   phaseStart, prev>>

\* lines 236-242, 345-346: the first k CREATE TABLE IF NOT EXISTS succeed; an
\* Error at the next one is printed and the function returns; DDL commits itself.
\* The caller goes on to load_dimensions either way.
CreateSchema ==
    /\ pc = "schema"
    /\ \E k \in 0..Len(TableNames) :
         /\ tables' = IF k > tables THEN k ELSE tables
         /\ schema' = IF k = Len(TableNames) THEN "ok" ELSE "failed"
    /\ pc' = "dim_locations"
    /\ dimPhase' = Running
    /\ phaseStart' = db
    /\ UNCHANGED <<raw, cleaned, db, tx, factPhase, prev>>

\* line 256
DimInsertLocations ==
    /\ pc = "dim_locations"
    /\ tables >= 1
    /\ tx' = [tx EXCEPT !.loc = insert_ignore_locations(tx.loc, location_tuples(cleaned))]
    /\ pc' = "dim_carriers"
    /\ UNCHANGED <<raw, cleaned, tables, db, schema, dimPhase, factPhase, phaseStart, prev>>

\* line 261
DimInsertCarriers ==
    /\ pc = "dim_carriers"
    /\ tables >= 2
    /\ tx' = [tx EXCEPT !.car = insert_ignore_carriers(tx.car, carrier_tuples(cleaned))]
    /\ pc' = "dim_dates"
    /\ UNCHANGED <<raw, cleaned, tables, db, schema, dimPhase, factPhase, phaseStart, prev>>

\* line 273
DimInsertDates ==
    /\ pc = "dim_dates"
    /\ tables >= 3
    /\ tx' = [tx EXCEPT !.dates = insert_ignore_dates(tx.dates, date_tuples(cleaned))]
    /\ pc' = "dim_commit"
    /\ UNCHANGED <<raw, cleaned, tables, db, schema, dimPhase, factPhase, phaseStart, prev>>

\* line 275, then back in __main__ before line 347
DimCommit ==
    /\ pc = "dim_commit"
    /\ db' = commit(db, tx)
    /\ dimPhase' = Committed
    /\ pc' = "fact_select"
    /\ UNCHANGED <<raw, cleaned, tables, tx, schema, factPhase, phaseStart, prev>>

\* lines 277-279: an Error at any statement of the try block (a missing table,
\* a lost connection, a failed commit): print, roll back, return normally
DimError ==
    /\ pc \in DimSteps
    /\ tx' = rollback(db, tx)
    /\ dimPhase' = RolledBack(tx # db)
    /\ pc' = "fact_select"
    /\ UNCHANGED <<raw, cleaned, tables, db, schema, factPhase, phaseStart, prev>>

\* lines 288-295: the three SELECTs; the mappings are the connection's view of
\* the dimension tables, which no statement changes before line 319
FactSelect ==
    /\ pc = "fact_select"
    /\ tables >= 3
    /\ factPhase' = Running
    /\ phaseStart' = db
    /\ pc' = "fact_insert"
    /\ UNCHANGED <<raw, cleaned, tables, db, tx, schema, dimPhase, prev>>

\* lines 297-319
FactInsert ==
    /\ pc = "fact_insert"
    /\ tables >= 4
    /\ tx' = [tx EXCEPT !.fact = insert_ignore_fact(tx, tx.fact, fact_data(tx, cleaned))]
    /\ pc' = "fact_commit"
    /\ UNCHANGED <<raw, cleaned, tables, db, schema, dimPhase, factPhase, phaseStart, prev>>

\* line 320
FactCommit ==
    /\ pc = "fact_commit"
    /\ db' = commit(db, tx)
    /\ factPhase' = Committed
    /\ pc' = "close"
    /\ UNCHANGED <<raw, cleaned, tables, tx, schema, dimPhase, phaseStart, prev>>

\* lines 323-325
FactError ==
    /\ pc \in FactSteps
    /\ tx' = rollback(db, tx)
    /\ factPhase' = RolledBack(tx # db)
    /\ phaseStart' = IF pc = "fact_select" THEN db ELSE phaseStart
    /\ pc' = "close"
    /\ UNCHANGED <<raw, cleaned, tables, db, schema, dimPhase, prev>>

\* lines 348-352
Close ==
    /\ pc = "close"
    /\ pc' = "finished"
    /\ UNCHANGED <<raw, cleaned, tables, db, tx, schema, dimPhase, factPhase,
                   phaseStart, prev>>

Next ==
    \/ Generate
    \/ CleanAndTransform
    \/ ConnectOk
    \/ ConnectFail
    \/ CreateSchema
    \/ DimInsertLocations
    \/ DimInsertCarriers
    \/ DimInsertDates
    \/ DimCommit
    \/ DimError
    \/ FactSelect
    \/ FactInsert
    \/ FactCommit
    \/ FactError
    \/ Close

Spec == Init /\ [][Next]_vars

\* the transformer alone, on batches that exercise dates and statuses
InitClean ==
    /\ pc = "clean"
    /\ \E k \in 0..MaxCleanRows : \E f \in [1..k -> DateRows \cup StatusRows] : raw = Numbered(f)
    /\ InitStore

NextClean == CleanAndTransform

SpecClean == InitClean /\ [][NextClean]_vars

\* the transformer alone, on batches that exercise the carrier names
InitCarrier ==
    /\ pc = "clean"
    /\ \E k \in 0..MaxCarrierRows : \E f \in [1..k -> CarrierRows] : raw = Numbered(f)
    /\ InitStore

NextCarrier == CleanAndTransform

SpecCarrier == InitCarrier /\ [][NextCarrier]_vars

\* the transformer alone, on batches that exercise the cost imputation
InitCost ==
    /\ pc = "clean"
    /\ \E k \in 0..MaxCostRows : \E f \in [1..k -> CostRows] : raw = Numbered(f)
    /\ InitStore

NextCost == CleanAndTransform

SpecCost == InitCost /\ [][NextCost]_vars

-----------------------------------------------------------------------------
(* Properties of the transformer *)

Cleaned == pc = "connect"

\* the raw row a cleaned row comes from (the generator numbers the rows)
RawOf(c) == raw[c.ShipmentID]

ShipmentIDs(df) == [i \in 1..Len(df) |-> df[i].ShipmentID]

ParsesAsShipDate(s) == s # None /\ (MatchesYmd(s) \/ MatchesDmy(s))

\* C5: the cleaned rows are exactly the raw rows whose ShipDate is present and
\* parses as YYYY-MM-DD or as DD-MM-YYYY, each once, in order, under its own
\* shipment identifier; no row is added.
ShipDateFilter ==
    Cleaned =>
        /\ ShipmentIDs(cleaned)
             = ShipmentIDs(SelectSeq(raw, LAMBDA r : ParsesAsShipDate(r.ShipDate)))
        /\ Len(cleaned) <= Len(raw)
        /\ \A i \in 1..Len(cleaned) : ~isna(cleaned[i].ShipDate)

\* a batch whose first row has an impossible date and whose second row is
\* written day first: only the second is kept
ShipDateFilterWitness ==
    /\ Cleaned
    /\ Len(raw) = 2
    /\ raw[1].ShipDate = <<2023, 2, 30>>
    /\ raw[2].ShipDate = <<29, 2, 2024>>
    /\ ShipmentIDs(cleaned) = <<2>>
    /\ cleaned[1].ShipDate = <<2024, 2, 29>>

\* C6: the status is In-Transit when the actual delivery date is missing,
\* whatever the promised date; else On-Time when actual <= promised; else
\* Delayed when actual > promised; else (promised missing) Unknown.
StatusPrecedence ==
    Cleaned =>
        \A i \in 1..Len(cleaned) :
            LET a == cleaned[i].ActualDeliveryDate
                p == cleaned[i].PromisedDeliveryDate
                st == cleaned[i].ShipmentStatus
            IN  /\ st \in {"In-Transit", "On-Time", "Delayed", "Unknown"}
                /\ a = NaT => st = "In-Transit"
                /\ (a # NaT /\ p # NaT /\ DateKey(a) <= DateKey(p)) => st = "On-Time"
                /\ (a # NaT /\ p # NaT /\ DateKey(a) > DateKey(p)) => st = "Delayed"
                /\ (a # NaT /\ p = NaT) => st = "Unknown"

\* both dates missing gives In-Transit, only the promised date missing Unknown
StatusPrecedenceWitness ==
    /\ Cleaned
    /\ Len(cleaned) = 2
    /\ cleaned[1].ActualDeliveryDate = NaT
    /\ cleaned[1].PromisedDeliveryDate = NaT
    /\ cleaned[1].ShipmentStatus = "In-Transit"
    /\ cleaned[2].ActualDeliveryDate = <<2023, 1, 9>>
    /\ cleaned[2].PromisedDeliveryDate = NaT
    /\ cleaned[2].ShipmentStatus = "Unknown"

lower_text(s) == [i \in 1..Len(s) |-> lower(s[i])]

RECURSIVE lstrip(_)
lstrip(s) == IF s # <<>> /\ Head(s) = " " THEN lstrip(Tail(s)) ELSE s

RECURSIVE rstrip(_)
rstrip(s) ==
    IF s # <<>> /\ s[Len(s)] = " " THEN rstrip(SubSeq(s, 1, Len(s) - 1)) ELSE s

strip(s) == rstrip(lstrip(s))

\* the two cleaned rows carry one canonical name and give one dim_carriers tuple
SameCarrier(c1, c2) ==
    /\ c1.CarrierName = c2.CarrierName
    /\ Len(carrier_tuples(<<c1, c2>>)) = 1

\* C8 as stated: raw carrier names that differ only in letter case or in
\* leading/trailing whitespace are cleaned to the identical name.
CarrierCaseAndWhitespaceInsensitive ==
    Cleaned =>
        \A i, j \in 1..Len(cleaned) :
            LET n1 == RawOf(cleaned[i]).CarrierName
                n2 == RawOf(cleaned[j]).CarrierName
            IN  (~isna(n1) /\ ~isna(n2)
                 /\ lower_text(strip(n1[1])) = lower_text(strip(n2[1])))
                => SameCarrier(cleaned[i], cleaned[j])

\* C8 amended: raw carrier names that differ only in letter case are cleaned to
\* the identical name, and so give a single dim_carriers tuple.
CarrierCaseInsensitive ==
    Cleaned =>
        \A i, j \in 1..Len(cleaned) :
            LET n1 == RawOf(cleaned[i]).CarrierName
                n2 == RawOf(cleaned[j]).CarrierName
            IN  (~isna(n1) /\ ~isna(n2) /\ lower_text(n1[1]) = lower_text(n2[1]))
                => SameCarrier(cleaned[i], cleaned[j])

\* "aA" and "Aa" are both cleaned to "Aa"
CarrierCaseInsensitiveWitness ==
    /\ Cleaned
    /\ Len(cleaned) = 2
    /\ RawOf(cleaned[1]).CarrierName = Some(<<"a", "A">>)
    /\ RawOf(cleaned[2]).CarrierName = Some(<<"A", "a">>)
    /\ cleaned[1].CarrierName = <<"A", "a">>
    /\ SameCarrier(cleaned[1], cleaned[2])

\* C7 as stated: every cleaned row has a ShippingCost that is present and not
\* negative, also when its carrier group or the whole batch has no known cost.
CostPresentAndNonNegative ==
    Cleaned =>
        \A i \in 1..Len(cleaned) :
            /\ ~isna(cleaned[i].ShippingCost)
            /\ cleaned[i].ShippingCost[1] >= 0

\* the known costs, made absolute, of the raw rows of the cleaned rows that
\* satisfy Keep
KnownCosts(Keep(_)) ==
    LET rows == SelectSeq(cleaned, LAMBDA c : Keep(c) /\ ~isna(RawOf(c).ShippingCost))
    IN  [k \in 1..Len(rows) |-> Some(Abs(RawOf(rows[k]).ShippingCost[1]))]

\* C9 as stated: a row without a cost gets the median of the known costs of its
\* carrier group, or, when the group has none, the median of the known costs of
\* the whole batch; values filled in for a group play no part in that median.
ImputedFromKnownCosts ==
    Cleaned =>
        \A i \in 1..Len(cleaned) :
            LET group == KnownCosts(LAMBDA c : c.CarrierName = cleaned[i].CarrierName)
                all == KnownCosts(LAMBDA c : TRUE)
            IN  isna(RawOf(cleaned[i]).ShippingCost) =>
                    cleaned[i].ShippingCost
                        = IF group # <<>> THEN median(group) ELSE median(all)

-----------------------------------------------------------------------------
(* Properties of the loader and of the run *)

\* C1: when a run has committed both load phases and the script is run again on
\* the same rows, the second run adds no row to any of the four tables: the row
\* counts stay what the first run left, in the open transaction and once
\* committed.
LoadIdempotent ==
    ~isna(prev) => RowCounts(db) = prev[1] /\ RowCounts(tx) = prev[1]

\* a second run over the same rows has committed both phases on top of a first
\* run that had filled all four tables
LoadIdempotentWitness ==
    /\ pc = "finished"
    /\ ~isna(prev)
    /\ dimPhase.st = "committed"
    /\ factPhase.st = "committed"
    /\ Len(cleaned) = 2
    /\ prev[1].loc = 2 /\ prev[1].car = 1 /\ prev[1].dates = 3 /\ prev[1].fact = 2

OneRowPerShipment(tbl) ==
    \A r1, r2 \in tbl : r1.ShipmentID = r2.ShipmentID => r1 = r2

StoredIDs(tbl) == {r.ShipmentID : r \in tbl}

\* the first row of df with the ShipmentID of row i
FirstOf(df, i) ==
    df[CHOOSE j \in 1..i :
          /\ df[j].ShipmentID = df[i].ShipmentID
          /\ \A k \in 1..(j - 1) : df[k].ShipmentID # df[i].ShipmentID]

\* the fact load of this run has run its INSERT
FactInserted == pc = "fact_commit" \/ factPhase.st = "committed"

\* C2: fact_shipments holds at most one row per ShipmentID; once the fact INSERT
\* has run, every row stored before the load is still there unchanged, and a
\* ShipmentID that was not stored carries the cost and status of the first row
\* of the batch with that ShipmentID.
FirstWriteWins ==
    /\ OneRowPerShipment(db.fact)
    /\ OneRowPerShipment(tx.fact)
    /\ FactInserted =>
         /\ \A r \in phaseStart.fact : r \in tx.fact
         /\ \A i \in 1..Len(cleaned) :
              cleaned[i].ShipmentID \notin StoredIDs(phaseStart.fact) =>
                \E r \in tx.fact :
                   /\ r.ShipmentID = cleaned[i].ShipmentID
                   /\ r.ShippingCost = FirstOf(cleaned, i).ShippingCost
                   /\ r.ShipmentStatus = FirstOf(cleaned, i).ShipmentStatus

\* the batch holds shipment 1 twice, first at cost 80 and then at cost 40, it
\* has been loaded twice, and the one stored row of shipment 1 has cost 80
FirstWriteWinsWitness ==
    /\ pc = "finished"
    /\ factPhase.st = "committed"
    /\ ~isna(prev)
    /\ Len(cleaned) = 2
    /\ cleaned[1].ShipmentID = 1 /\ cleaned[2].ShipmentID = 1
    /\ cleaned[1].ShippingCost = Some(80) /\ cleaned[2].ShippingCost = Some(40)
    /\ cleaned[1].ShipmentStatus # cleaned[2].ShipmentStatus
    /\ {r.ShippingCost : r \in db.fact} = {Some(80)}
    /\ Cardinality(db.fact) = 1

\* C3 as stated: load_fact_table is not run in a run whose load_dimensions did
\* not commit, and load_dimensions is not run in a run whose schema creation
\* failed.
HaltOnPhaseFailure ==
    /\ factPhase.st # "idle" => dimPhase.st = "committed"
    /\ dimPhase.st # "idle" => schema = "ok"

\* the three dimension INSERTs of load_dimensions, applied to the tables
DimensionInserts(start, df) ==
    [start EXCEPT
        !.loc = insert_ignore_locations(start.loc, location_tuples(df)),
        !.car = insert_ignore_carriers(start.car, carrier_tuples(df)),
        !.dates = insert_ignore_dates(start.dates, date_tuples(df))]

\* the INSERT of load_fact_table, applied to the tables
FactInserts(start, df) ==
    [start EXCEPT !.fact = insert_ignore_fact(start, start.fact, fact_data(start, df))]

\* C4: the committed tables do not change while a load phase runs; after a
\* phase that failed they are what they were when it began and nothing is left
\* open; after a phase that committed they are what they were plus all of the
\* phase's inserts.
PhaseAtomicity ==
    /\ pc \in DimSteps => db = phaseStart
    /\ (pc = "fact_select" /\ dimPhase.st = "rolledback")
          => db = phaseStart /\ tx = db
    /\ (pc = "fact_select" /\ dimPhase.st = "committed")
          => db = DimensionInserts(phaseStart, cleaned) /\ tx = db
    /\ pc \in {"fact_insert", "fact_commit"} => db = phaseStart
    /\ (pc \in {"close", "finished"} /\ factPhase.st = "rolledback")
          => db = phaseStart /\ tx = db
    /\ (pc \in {"close", "finished"} /\ factPhase.st = "committed")
          => db = FactInserts(phaseStart, cleaned) /\ tx = db

\* the dimension load failed after some of its inserts and the rollback
\* discarded them; the fact load then failed after its insert as well
PhaseAtomicityWitness ==
    /\ pc = "close"
    /\ dimPhase = RolledBack(TRUE)
    /\ factPhase = RolledBack(TRUE)
    /\ db = phaseStart

\* C10 as stated: every committed fact row has a ship-date key, an origin and a
\* destination location id and a carrier id that are present and are keys of
\* committed dimension rows; its promised and actual date keys are absent
\* exactly when the clean date is absent and otherwise are keys of dim_dates.
FactRowsReferenceDimensions ==
    /\ \A r \in db.fact :
         /\ ~isna(r.ShipDateKey)
         /\ r.ShipDateKey[1] \in {d.DateKey : d \in db.dates}
         /\ ~isna(r.OriginLocationID)
         /\ r.OriginLocationID[1] \in {l.LocationID : l \in db.loc}
         /\ ~isna(r.DestinationLocationID)
         /\ r.DestinationLocationID[1] \in {l.LocationID : l \in db.loc}
         /\ ~isna(r.CarrierID)
         /\ r.CarrierID[1] \in {c.CarrierID : c \in db.car}
         /\ ~isna(r.PromisedDateKey)
              => r.PromisedDateKey[1] \in {d.DateKey : d \in db.dates}
         /\ ~isna(r.ActualDeliveryDateKey)
              => r.ActualDeliveryDateKey[1] \in {d.DateKey : d \in db.dates}
    /\ (pc = "close" /\ factPhase.st = "committed") =>
         \A i \in 1..Len(cleaned) :
            cleaned[i].ShipmentID \notin StoredIDs(phaseStart.fact) =>
              \E r \in db.fact :
                 /\ r.ShipmentID = cleaned[i].ShipmentID
                 /\ r.ShipDateKey = Some(DateKey(FirstOf(cleaned, i).ShipDate))
                 /\ isna(r.PromisedDateKey)
                      <=> isna(FirstOf(cleaned, i).PromisedDeliveryDate)
                 /\ isna(r.ActualDeliveryDateKey)
                      <=> isna(FirstOf(cleaned, i).ActualDeliveryDate)

====
